---- MODULE Spec2Model ----
(***************************************************************************)
(* Model of parseconfig: the schema planner (src/planner.js) and the       *)
(* reconciliation facade (src/actions.js).                                 *)
(*                                                                         *)
(* JavaScript values are represented as follows.                           *)
(*   - a plain object whose keys are data (fields, indexes, a column or    *)
(*     index definition, classLevelPermissions) is a sequence of           *)
(*     <<key, value>> pairs in insertion order, so that Object.keys and    *)
(*     JSON.stringify see the order the code sees;                         *)
(*   - an object with fixed keys (a collection, a function, a trigger, a   *)
(*     command) is a record; an optional key is a field the record may     *)
(*     lack;                                                               *)
(*   - an array is a sequence;                                             *)
(*   - an optional string (hookUrl) is <<>> when null/undefined and <<s>>  *)
(*     when it is the string s.                                            *)
(***************************************************************************)
EXTENDS Integers, Sequences, FiniteSets, TLC

VARIABLES
  newSchema,   \* the caller's desired schema object (actions.js:37)
  remote,      \* the schema held by the remote backend
  options,     \* the options of the call in progress (actions.js:27-34)
  commands,    \* the command list the last call produced
  error,       \* the error the last call raised, <<>> when none
  requests,    \* HTTP methods issued to the remote so far
  cursor,      \* position of the executor in commands
  live,        \* the schema getLiveSchema has assembled so far
  caller,      \* the exported function that was called: "none", "getPlan",
               \* "check" or "getLiveSchema"
  others,      \* how many other callbacks ran while the call was suspended
  pc           \* "idle", "planned", "executing", "done" for the planner and
               \* the executor; for the facade "idle", "getCollections",
               \* "getFunctions", "getTriggers" (that request is in
               \* flight), "gotLiveSchema", "gotPlan", "checked"

vars ==
  <<newSchema, remote, options, commands, error, requests, cursor, live,
    caller, others, pc>>

----------------------------------------------------------------------------
(* Bounds of the model.                                                    *)

MaxCollections == 2
MaxFunctions == 2
MaxTriggers == 2
MaxOtherCallbacks == 2

----------------------------------------------------------------------------
(* Plain objects as ordered key/value sequences.                           *)

EmptyObject == <<>>

ObjectKeys(o) == [i \in 1..Len(o) |-> o[i][1]]

KeySet(o) == {o[i][1] : i \in 1..Len(o)}

\* k is an own key of o
HasOwnProperty(o, k) == \E i \in 1..Len(o) : o[i][1] = k

\* o[k] for an own key of o
Lookup(o, k) == o[CHOOSE i \in 1..Len(o) : o[i][1] = k][2]

\* What a member access o[k] can give: a value of the data (an object, a
\* string, a number), a function, or undefined.
Data(v) == [tag |-> "data", value |-> v]
Function == [tag |-> "function", value |-> EmptyObject]
Undefined == [tag |-> "undefined", value |-> EmptyObject]

\* the methods every plain object inherits from Object.prototype
ObjectPrototypeFunctions ==
  {"constructor", "hasOwnProperty", "isPrototypeOf", "propertyIsEnumerable",
   "toLocaleString", "toString", "valueOf", "__defineGetter__",
   "__defineSetter__", "__lookupGetter__", "__lookupSetter__"}

\* o[k] on a plain object: the own value, else the inherited member
\* (o.__proto__ is Object.prototype, an object with no enumerable key),
\* else undefined
Get(o, k) ==
  IF HasOwnProperty(o, k) THEN Data(Lookup(o, k))
  ELSE IF k = "__proto__" THEN Data(EmptyObject)
  ELSE IF k \in ObjectPrototypeFunctions THEN Function
  ELSE Undefined

\* o[k] !== undefined
HasKey(o, k) == Get(o, k).tag # "undefined"

\* o[k] = v : replaces in place, or appends a new key
SetKey(o, k, v) ==
  IF HasOwnProperty(o, k)
  THEN [i \in 1..Len(o) |-> IF o[i][1] = k THEN <<k, v>> ELSE o[i]]
  ELSE Append(o, <<k, v>>)

\* delete o[k]
DeleteKey(o, k) == SelectSeq(o, LAMBDA p : p[1] # k)

Indices(s) == [i \in 1..Len(s) |-> i]

RECURSIVE Flatten(_)
Flatten(ss) == IF ss = <<>> THEN <<>> ELSE Head(ss) \o Flatten(Tail(ss))

Map(s, F(_)) == [i \in 1..Len(s) |-> F(s[i])]

\* the optional string h is truthy: neither null/undefined nor ""
Truthy(h) == h # <<>> /\ h[1] # ""

NoHookUrl == <<>>

----------------------------------------------------------------------------
(* The command vocabulary (command.js is not part of the sources at hand;  *)
(* the constructors follow the command list of the specification and the   *)
(* two fields actions.js reads: type and definition).                      *)
(*                                                                         *)
(* AddCollection: definition is the value of the collection object it is   *)
(* given and ref the position of that object in the desired collections    *)
(* array it came from.                                                     *)

AddCollection(definition, ref) ==
  [type |-> "AddCollection", definition |-> definition, ref |-> ref]

DeleteCollection(className) ==
  [type |-> "DeleteCollection", className |-> className]

\* oldDefinition is optional: <<>> when the caller passes no third argument
UpdateCollectionPermissions(className, definition, oldDefinition) ==
  [type |-> "UpdateCollectionPermissions", className |-> className,
   definition |-> definition, oldDefinition |-> oldDefinition]

AddColumn(className, name, definition) ==
  [type |-> "AddColumn", className |-> className, name |-> name,
   definition |-> definition]

UpdateColumn(className, name, definition) ==
  [type |-> "UpdateColumn", className |-> className, name |-> name,
   definition |-> definition]

DeleteColumn(className, name) ==
  [type |-> "DeleteColumn", className |-> className, name |-> name]

AddIndex(className, name, definition) ==
  [type |-> "AddIndex", className |-> className, name |-> name,
   definition |-> definition]

UpdateIndex(className, name, definition) ==
  [type |-> "UpdateIndex", className |-> className, name |-> name,
   definition |-> definition]

DeleteIndex(className, name) ==
  [type |-> "DeleteIndex", className |-> className, name |-> name]

AddFunction(definition) ==
  [type |-> "AddFunction", definition |-> definition]

UpdateFunction(definition) ==
  [type |-> "UpdateFunction", definition |-> definition]

DeleteFunction(functionName) ==
  [type |-> "DeleteFunction", functionName |-> functionName]

AddTrigger(definition) ==
  [type |-> "AddTrigger", definition |-> definition]

UpdateTrigger(definition) ==
  [type |-> "UpdateTrigger", definition |-> definition]

DeleteTrigger(className, triggerName) ==
  [type |-> "DeleteTrigger", className |-> className,
   triggerName |-> triggerName]

----------------------------------------------------------------------------
(* planner.js                                                              *)

\* JSON.stringify(v): <<>> when it returns undefined (v is a function or
\* undefined), else <<text>>; on objects kept as ordered key/value sequences
\* two texts agree exactly when the ordered values do
JSONstringify(v) == IF v.tag = "data" THEN <<v.value>> ELSE <<>>

deepEquals(a, b) ==
  IF a.tag = "undefined" \/ b.tag = "undefined"
  THEN a.tag = b.tag
  ELSE JSONstringify(a) = JSONstringify(b)

\* collection.indexes || {}
IndexesOf(collection) ==
  IF "indexes" \in DOMAIN collection THEN collection.indexes ELSE EmptyObject

\* new Map(schema.map(c => [c.className, c])).has(className)
ColMapHas(schema, className) ==
  \E i \in 1..Len(schema) : schema[i].className = className

\* new Map(schema.map(c => [c.className, c])).get(className), for a key the
\* map has: a later entry of the array replaces an earlier one
ColMapGet(schema, className) ==
  schema[CHOOSE i \in 1..Len(schema) :
           /\ schema[i].className = className
           /\ \A j \in (i+1)..Len(schema) : schema[j].className # className]

newCollections(newS, oldS) ==
  LET sel == SelectSeq(Indices(newS),
                       LAMBDA i : ~ColMapHas(oldS, newS[i].className))
  IN  [j \in 1..Len(sel) |-> AddCollection(newS[sel[j]], sel[j])]

deletedCollections(newS, oldS) ==
  LET sel == SelectSeq(oldS, LAMBDA c : ~ColMapHas(newS, c.className))
  IN  [j \in 1..Len(sel) |-> DeleteCollection(sel[j].className)]

updatedPermissions(newS, oldS) ==
  LET differs(c) ==
        /\ ColMapHas(oldS, c.className)
        /\ ~deepEquals(Data(c.classLevelPermissions),
                       Data(ColMapGet(oldS, c.className).classLevelPermissions))
      sel == SelectSeq(newS, differs)
  IN  [j \in 1..Len(sel) |->
         UpdateCollectionPermissions(sel[j].className,
                                     sel[j].classLevelPermissions, <<>>)]

newColumnsOf(collection, old) ==
  LET fields == collection.fields
      one(name) ==
        IF ~HasKey(old.fields, name)
        THEN <<AddColumn(collection.className, name, Lookup(fields, name))>>
        ELSE IF ~deepEquals(Get(old.fields, name), Get(fields, name))
        THEN <<UpdateColumn(collection.className, name, Lookup(fields, name))>>
        ELSE <<>>
  IN  Flatten(Map(ObjectKeys(fields), one))

newColumns(newS, oldS) ==
  LET one(c) == IF ~ColMapHas(oldS, c.className)
                THEN <<>>
                ELSE newColumnsOf(c, ColMapGet(oldS, c.className))
  IN  Flatten(Map(newS, one))

\* deletedColumnsOf deleting a changed column as well as a missing one
deletedColumnsOf_changed(collection, newC) ==
  LET one(name) ==
        IF \/ ~HasKey(newC.fields, name)
           \/ ~deepEquals(Get(newC.fields, name),
                          Get(collection.fields, name))
        THEN <<DeleteColumn(collection.className, name)>>
        ELSE <<>>
  IN  Flatten(Map(ObjectKeys(collection.fields), one))

deletedColumnsOf(collection, newC) ==
  LET one(name) == IF ~HasKey(newC.fields, name)
                   THEN <<DeleteColumn(collection.className, name)>>
                   ELSE <<>>
  IN  Flatten(Map(ObjectKeys(collection.fields), one))

deletedColumns(newS, oldS) ==
  LET one(c) == IF ~ColMapHas(newS, c.className)
                THEN <<>>
                ELSE deletedColumnsOf(c, ColMapGet(newS, c.className))
  IN  Flatten(Map(oldS, one))

newIndexesOf(collection, old) ==
  LET indexes == IndexesOf(collection)
      one(name) ==
        IF ~HasKey(IndexesOf(old), name)
        THEN <<AddIndex(collection.className, name, Lookup(indexes, name))>>
        ELSE IF ~deepEquals(Get(IndexesOf(old), name), Get(indexes, name))
        THEN <<UpdateIndex(collection.className, name, Lookup(indexes, name))>>
        ELSE <<>>
  IN  Flatten(Map(ObjectKeys(indexes), one))

\* newIndexes without the early return for a new collection
newIndexes_newCollections(newS, oldS) ==
  LET one(c) == IF ~ColMapHas(oldS, c.className)
                THEN newIndexesOf(c, [fields |-> EmptyObject])
                ELSE newIndexesOf(c, ColMapGet(oldS, c.className))
  IN  Flatten(Map(newS, one))

newIndexes(newS, oldS) ==
  LET one(c) == IF ~ColMapHas(oldS, c.className)
                THEN <<>>
                ELSE newIndexesOf(c, ColMapGet(oldS, c.className))
  IN  Flatten(Map(newS, one))

\* name.startsWith('_')
startsWithUnderscore(name) == Len(name) >= 1 /\ SubSeq(name, 1, 1) = "_"

deletedIndexesOf(collection, newC, ignorePrivateIndexes) ==
  LET one(name) ==
        IF ignorePrivateIndexes /\ startsWithUnderscore(name)
        THEN <<>>
        ELSE IF ~HasKey(IndexesOf(newC), name)
        THEN <<DeleteIndex(collection.className, name)>>
        ELSE <<>>
  IN  Flatten(Map(ObjectKeys(IndexesOf(collection)), one))

deletedIndexes(newS, oldS, ignorePrivateIndexes) ==
  LET one(c) == IF ~ColMapHas(newS, c.className)
                THEN <<>>
                ELSE deletedIndexesOf(c, ColMapGet(newS, c.className),
                                      ignorePrivateIndexes)
  IN  Flatten(Map(oldS, one))

\* planCollections with the new indexes ahead of the new columns
planCollections_indexesFirst(newS, oldS, ignorePrivateIndexes) ==
  newCollections(newS, oldS)
    \o deletedCollections(newS, oldS)
    \o updatedPermissions(newS, oldS)
    \o deletedIndexes(newS, oldS, ignorePrivateIndexes)
    \o deletedColumns(newS, oldS)
    \o newIndexes(newS, oldS)
    \o newColumns(newS, oldS)

planCollections(newS, oldS, ignorePrivateIndexes) ==
  newCollections(newS, oldS)
    \o deletedCollections(newS, oldS)
    \o updatedPermissions(newS, oldS)
    \o deletedIndexes(newS, oldS, ignorePrivateIndexes)
    \o deletedColumns(newS, oldS)
    \o newColumns(newS, oldS)
    \o newIndexes(newS, oldS)

FuncMapHas(schema, functionName) ==
  \E i \in 1..Len(schema) : schema[i].functionName = functionName

FuncMapGet(schema, functionName) ==
  schema[CHOOSE i \in 1..Len(schema) :
           /\ schema[i].functionName = functionName
           /\ \A j \in (i+1)..Len(schema) :
                schema[j].functionName # functionName]

\* actualFunc without the rewrite
actualFunc_raw(func, hookUrl) == func

\* Object.assign({}, func), then actualFunc.url = hookUrl + func.url
actualFunc(func, hookUrl) ==
  IF Truthy(hookUrl)
  THEN [func EXCEPT !.url = hookUrl[1] \o func.url]
  ELSE func

newFunctions(newS, oldS, hookUrl) ==
  LET one(func) ==
        LET actual == actualFunc(func, hookUrl)
        IN  IF ~FuncMapHas(oldS, actual.functionName)
            THEN <<AddFunction(actual)>>
            ELSE IF FuncMapGet(oldS, actual.functionName).url # actual.url
            THEN <<UpdateFunction(actual)>>
            ELSE <<>>
  IN  Flatten(Map(newS, one))

deletedFunctions(newS, oldS) ==
  LET sel == SelectSeq(oldS, LAMBDA f : ~FuncMapHas(newS, f.functionName))
  IN  [j \in 1..Len(sel) |-> DeleteFunction(sel[j].functionName)]

planFunctions(newS, oldS, hookUrl) ==
  deletedFunctions(newS, oldS) \o newFunctions(newS, oldS, hookUrl)

\* `${t.triggerName}-${t.className}`
triggerKey(t) == t.triggerName \o "-" \o t.className

TriggerMapHas(schema, key) ==
  \E i \in 1..Len(schema) : triggerKey(schema[i]) = key

TriggerMapGet(schema, key) ==
  schema[CHOOSE i \in 1..Len(schema) :
           /\ triggerKey(schema[i]) = key
           /\ \A j \in (i+1)..Len(schema) : triggerKey(schema[j]) # key]

\* Object.assign({}, trigger), then actualTrigger.url = hookUrl + trigger.url
actualTrigger(trigger, hookUrl) ==
  IF Truthy(hookUrl)
  THEN [trigger EXCEPT !.url = hookUrl[1] \o trigger.url]
  ELSE trigger

\* newTriggers comparing the caller's raw url with the observed one
newTriggers_compareRaw(newS, oldS, hookUrl) ==
  LET one(trigger) ==
        LET actual == actualTrigger(trigger, hookUrl)
        IN  IF ~TriggerMapHas(oldS, triggerKey(actual))
            THEN <<AddTrigger(actual)>>
            ELSE IF TriggerMapGet(oldS, triggerKey(actual)).url # trigger.url
            THEN <<UpdateTrigger(actual)>>
            ELSE <<>>
  IN  Flatten(Map(newS, one))

newTriggers(newS, oldS, hookUrl) ==
  LET one(trigger) ==
        LET actual == actualTrigger(trigger, hookUrl)
        IN  IF ~TriggerMapHas(oldS, triggerKey(actual))
            THEN <<AddTrigger(actual)>>
            ELSE IF TriggerMapGet(oldS, triggerKey(actual)).url # actual.url
            THEN <<UpdateTrigger(actual)>>
            ELSE <<>>
  IN  Flatten(Map(newS, one))

deletedTriggers(newS, oldS) ==
  LET sel == SelectSeq(oldS, LAMBDA t : ~TriggerMapHas(newS, triggerKey(t)))
  IN  [j \in 1..Len(sel) |->
         DeleteTrigger(sel[j].className, sel[j].triggerName)]

planTriggers(newS, oldS, hookUrl) ==
  deletedTriggers(newS, oldS) \o newTriggers(newS, oldS, hookUrl)

plan(newS, oldS, hookUrl, ignorePrivateIndexes) ==
  planCollections(newS.collections, oldS.collections, ignorePrivateIndexes)
    \o planFunctions(newS.functions, oldS.functions, hookUrl)
    \o planTriggers(newS.triggers, oldS.triggers, hookUrl)

----------------------------------------------------------------------------
(* The executor and the remote backend (executor.js is not part of the     *)
(* sources at hand): each command is applied to the remote's schema as the *)
(* specification describes it, one command at a time.                     *)

WithIndexes(collection, indexes) ==
  [className |-> collection.className,
   fields |-> collection.fields,
   indexes |-> indexes,
   classLevelPermissions |-> collection.classLevelPermissions]

OnCollection(collections, className, F(_)) ==
  [i \in 1..Len(collections) |->
     IF collections[i].className = className
     THEN F(collections[i])
     ELSE collections[i]]

applyToCollections(collections, c) ==
  CASE c.type = "AddCollection" ->
         Append(collections, c.definition)
    [] c.type = "DeleteCollection" ->
         SelectSeq(collections, LAMBDA d : d.className # c.className)
    [] c.type = "UpdateCollectionPermissions" ->
         OnCollection(collections, c.className,
           LAMBDA d : [d EXCEPT !.classLevelPermissions = c.definition])
    [] c.type \in {"AddColumn", "UpdateColumn"} ->
         OnCollection(collections, c.className,
           LAMBDA d : [d EXCEPT !.fields = SetKey(@, c.name, c.definition)])
    [] c.type = "DeleteColumn" ->
         OnCollection(collections, c.className,
           LAMBDA d : [d EXCEPT !.fields = DeleteKey(@, c.name)])
    [] c.type \in {"AddIndex", "UpdateIndex"} ->
         OnCollection(collections, c.className,
           LAMBDA d : WithIndexes(d, SetKey(IndexesOf(d), c.name, c.definition)))
    [] c.type = "DeleteIndex" ->
         OnCollection(collections, c.className,
           LAMBDA d : WithIndexes(d, DeleteKey(IndexesOf(d), c.name)))
    [] OTHER -> collections

applyToFunctions(functions, c) ==
  CASE c.type = "AddFunction" ->
         Append(functions, c.definition)
    [] c.type = "UpdateFunction" ->
         [i \in 1..Len(functions) |->
            IF functions[i].functionName = c.definition.functionName
            THEN c.definition
            ELSE functions[i]]
    [] c.type = "DeleteFunction" ->
         SelectSeq(functions, LAMBDA f : f.functionName # c.functionName)
    [] OTHER -> functions

applyToTriggers(triggers, c) ==
  CASE c.type = "AddTrigger" ->
         Append(triggers, c.definition)
    [] c.type = "UpdateTrigger" ->
         [i \in 1..Len(triggers) |->
            IF /\ triggers[i].className = c.definition.className
               /\ triggers[i].triggerName = c.definition.triggerName
            THEN c.definition
            ELSE triggers[i]]
    [] c.type = "DeleteTrigger" ->
         SelectSeq(triggers, LAMBDA t : ~(/\ t.className = c.className
                                          /\ t.triggerName = c.triggerName))
    [] OTHER -> triggers

applyCommand(schema, c) ==
  [collections |-> applyToCollections(schema.collections, c),
   functions |-> applyToFunctions(schema.functions, c),
   triggers |-> applyToTriggers(schema.triggers, c)]

\* the HTTP method of the request that carries a command
methodOf(c) ==
  IF c.type \in {"AddCollection", "AddFunction", "AddTrigger"} THEN "post"
  ELSE IF c.type \in {"DeleteCollection", "DeleteFunction", "DeleteTrigger"}
  THEN "delete"
  ELSE "put"

----------------------------------------------------------------------------
(* actions.js                                                              *)

\* verifier.js is not part of the sources at hand: the structural rule the
\* specification names, unique className, functionName and
\* (triggerName, className) keys, one error per broken rule
verifySchema(schema) ==
  LET dup(s, Key(_)) == \E i, j \in 1..Len(s) : i < j /\ Key(s[i]) = Key(s[j])
  IN  (IF dup(schema.collections, LAMBDA c : c.className)
       THEN <<"duplicate className">> ELSE <<>>)
      \o (IF dup(schema.functions, LAMBDA f : f.functionName)
          THEN <<"duplicate functionName">> ELSE <<>>)
      \o (IF dup(schema.triggers, LAMBDA t : <<t.triggerName, t.className>>)
          THEN <<"duplicate trigger">> ELSE <<>>)

isIndexCommand(c) == c.type \in {"AddIndex", "UpdateIndex", "DeleteIndex"}

\* withoutIndexCommands letting DeleteIndex through
withoutIndexCommands_keepDelete(cmds) ==
  SelectSeq(cmds, LAMBDA c : c.type \notin {"AddIndex", "UpdateIndex"})

\* commands.filter(c => c.type is none of AddIndex, UpdateIndex, DeleteIndex)
withoutIndexCommands(cmds) == SelectSeq(cmds, LAMBDA c : ~isIndexCommand(c))

\* c.definition.indexes = {} on every AddCollection command
clearIndexes(cmds) ==
  [k \in 1..Len(cmds) |->
     IF cmds[k].type = "AddCollection"
     THEN [cmds[k] EXCEPT !.definition = WithIndexes(@, EmptyObject)]
     ELSE cmds[k]]

\* the same assignment seen through the desired schema, when the definition
\* of an AddCollection command is the collection object of the caller's array
clearedSchema(schema, cmds) ==
  [schema EXCEPT !.collections =
     [i \in 1..Len(@) |->
        IF \E k \in 1..Len(cmds) :
             cmds[k].type = "AddCollection" /\ cmds[k].ref = i
        THEN WithIndexes(@[i], EmptyObject)
        ELSE @[i]]]

\* the condition under which the disallowColumnRedefine scan throws
disallowedColumn(c) == c.type # "UpdateColumn" \/ c.type # "DeleteColumn"

\* the condition under which the disallowIndexRedefine scan throws
disallowedIndex(c) == c.type # "UpdateIndex" \/ c.type # "DeleteIndex"

NoError == <<>>

DisallowedCommandError(c) == [name |-> "DisallowedCommandError", command |-> c]

OutOfSyncError(cmds) == [name |-> "OutOfSyncError", commands |-> cmds]

InvalidSchemaError(errors) == [name |-> "InvalidSchemaError", errors |-> errors]

RequestError == [name |-> "RequestError"]

\* getPlan once getLiveSchema has returned oldS: the local command list, the
\* error thrown (NoError when the list is returned) and the desired schema
\* object as the call leaves it. plan is called with three arguments, so
\* ignorePrivateIndexes takes its default. keepsReference tells whether the
\* definition of an AddCollection command is the collection object it was
\* made from or a copy of it, which command.js decides.
getPlan(newS, oldS, opts, keepsReference) ==
  LET planned == plan(newS, oldS, opts.hookUrl, FALSE)
      cmds == IF opts.ignoreIndexes
              THEN clearIndexes(withoutIndexCommands(planned))
              ELSE planned
      after == IF opts.ignoreIndexes /\ keepsReference
               THEN clearedSchema(newS, cmds)
               ELSE newS
      badColumns == IF opts.disallowColumnRedefine
                    THEN SelectSeq(cmds, disallowedColumn)
                    ELSE <<>>
      badIndexes == IF opts.disallowIndexRedefine
                    THEN SelectSeq(cmds, disallowedIndex)
                    ELSE <<>>
  IN  [commands |-> cmds,
       error |-> IF badColumns # <<>> THEN DisallowedCommandError(Head(badColumns))
                 ELSE IF badIndexes # <<>>
                 THEN DisallowedCommandError(Head(badIndexes))
                 ELSE NoError,
       newSchema |-> after]

\* check after getPlan ended with result r
checkOutcome(r) ==
  IF r.error # NoError THEN r.error
  ELSE IF Len(r.commands) = 0 THEN NoError
  ELSE OutOfSyncError(r.commands)

----------------------------------------------------------------------------
(* Inputs of the model.                                                    *)

StringColumn == << <<"type", "String">> >>
PointerColumn == << <<"type", "Pointer">>, <<"targetClass", "Bar">> >>
PointerColumnReordered == << <<"targetClass", "Bar">>, <<"type", "Pointer">> >>

ColumnDefs == {StringColumn, PointerColumn, PointerColumnReordered}

IndexDefs == { << <<"q", 1>> >>, << <<"q", -1>> >> }

UserFind == << <<"find", << <<"role:user", TRUE>> >> >>, <<"get", EmptyObject>> >>
NobodyFind == << <<"find", EmptyObject>>, <<"get", EmptyObject>> >>

\* a field named as a method of Object.prototype is a field like any other
FooFields ==
  {EmptyObject, << <<"constructor", StringColumn>> >>}
    \cup {<< <<"q", d>> >> : d \in ColumnDefs}

FooIndexes == {EmptyObject} \cup {<< <<"q_idx", d>> >> : d \in IndexDefs}

FooDefs ==
  [className : {"Foo"}, fields : FooFields, indexes : FooIndexes,
   classLevelPermissions : {UserFind}]

BarDefs ==
  { [className |-> "Bar",
     fields |-> << <<"q", StringColumn>> >>,
     indexes |-> << <<"q_idx", << <<"q", 1>> >> >> >>,
     classLevelPermissions |-> UserFind],
    [className |-> "Bar",
     fields |-> << <<"r", StringColumn>> >>,
     classLevelPermissions |-> NobodyFind] }

FunctionNames == {"f", "g", "k"}
TriggerKeys ==
  {<<"beforeSave", "Foo">>, <<"afterSave", "Foo">>, <<"beforeSave", "Bar">>}
Urls == {"/a", "/b"}
RemoteUrls == Urls \cup {"/h/a"}
HookUrls == {NoHookUrl, <<"">>, <<"/h">>}

\* the sequences of at most n members of Pool with pairwise distinct keys
UniqueLists(Pool, Key(_), n) ==
  LET L[k \in 0..n] ==
        IF k = 0 THEN {<<>>}
        ELSE L[k-1] \cup
             UNION {{Append(l, c) :
                       c \in {d \in Pool :
                                \A i \in 1..Len(l) : Key(l[i]) # Key(d)}} :
                    l \in {x \in L[k-1] : Len(x) = k-1}}
  IN  L[n]

CollectionLists ==
  UniqueLists(FooDefs \cup BarDefs, LAMBDA c : c.className, MaxCollections)

FunctionLists(urls) ==
  UniqueLists([functionName : FunctionNames, url : urls],
              LAMBDA f : f.functionName, MaxFunctions)

TriggerLists(urls) ==
  UniqueLists({[triggerName |-> k[1], className |-> k[2], url |-> u] :
                 k \in TriggerKeys, u \in urls},
              LAMBDA t : <<t.triggerName, t.className>>, MaxTriggers)

EmptySchema == [collections |-> <<>>, functions |-> <<>>, triggers |-> <<>>]

OnlyCollections == {[EmptySchema EXCEPT !.collections = l] : l \in CollectionLists}

OnlyFunctions(urls) ==
  {[EmptySchema EXCEPT !.functions = l] : l \in FunctionLists(urls)}

OnlyTriggers(urls) ==
  {[EmptySchema EXCEPT !.triggers = l] : l \in TriggerLists(urls)}

FullSchemaA ==
  [collections |-> << [className |-> "Bar",
                       fields |-> << <<"q", StringColumn>> >>,
                       indexes |-> << <<"q_idx", << <<"q", 1>> >> >> >>,
                       classLevelPermissions |-> UserFind] >>,
   functions |-> << [functionName |-> "f", url |-> "/a"] >>,
   triggers |-> << [triggerName |-> "beforeSave", className |-> "Foo",
                    url |-> "/a"] >>]

FullSchemaB ==
  [collections |-> << [className |-> "Foo",
                       fields |-> << <<"q", PointerColumn>> >>,
                       indexes |-> << <<"q_idx", << <<"q", -1>> >> >> >>,
                       classLevelPermissions |-> UserFind],
                      [className |-> "Bar",
                       fields |-> << <<"r", StringColumn>> >>,
                       classLevelPermissions |-> NobodyFind] >>,
   functions |-> << [functionName |-> "g", url |-> "/a"],
                    [functionName |-> "f", url |-> "/b"] >>,
   triggers |-> << [triggerName |-> "afterSave", className |-> "Foo",
                    url |-> "/b"] >>]

\* FullSchemaA as the remote holds it once applied with hookUrl "/h"
FullSchemaAHooked ==
  [FullSchemaA EXCEPT !.functions = << [functionName |-> "f", url |-> "/h/a"] >>,
                      !.triggers = << [triggerName |-> "beforeSave",
                                       className |-> "Foo", url |-> "/h/a"] >>]

\* a desired schema the verifier rejects
DuplicateKeySchema ==
  [EmptySchema EXCEPT !.functions = << [functionName |-> "f", url |-> "/a"],
                                       [functionName |-> "f", url |-> "/b"] >>]

\* FullSchemaA on a remote that lacks its function
FullSchemaANoFunctions == [FullSchemaA EXCEPT !.functions = <<>>]

FullSchemas ==
  {FullSchemaA, FullSchemaB, DuplicateKeySchema}
    \X {FullSchemaA, FullSchemaB, FullSchemaAHooked, FullSchemaANoFunctions}

\* the collections of the facade's inputs: two Foo that differ in a column
\* and an index definition, and the two Bar, Foo ahead of Bar (the order of
\* the collections is the planner's matter and is varied in Inputs)
FacadeDefs ==
  { [className |-> "Foo",
     fields |-> << <<"q", StringColumn>> >>,
     indexes |-> << <<"q_idx", << <<"q", 1>> >> >> >>,
     classLevelPermissions |-> UserFind],
    [className |-> "Foo",
     fields |-> << <<"q", PointerColumn>> >>,
     indexes |-> << <<"q_idx", << <<"q", -1>> >> >> >>,
     classLevelPermissions |-> UserFind] } \cup BarDefs

FacadeCollections ==
  {[EmptySchema EXCEPT !.collections = l] :
     l \in {x \in UniqueLists(FacadeDefs, LAMBDA c : c.className,
                              MaxCollections) :
              Len(x) >= 2 => x[1].className = "Foo"}}

\* <<desired schema, schema of the remote>>, for the facade
FacadeInputs == (FacadeCollections \X FacadeCollections) \cup FullSchemas

\* a permission action the backend adds to every collection on its own
ServerAddedPermission == <<"protectedFields", EmptyObject>>

\* schema as the backend reports it once it has added its own permission
WithServerDefaults(schema) ==
  [schema EXCEPT !.collections =
     [i \in 1..Len(@) |->
        [@[i] EXCEPT !.classLevelPermissions =
                       Append(@, ServerAddedPermission)]]]

\* an index the backend manages on its own
PrivateIndex == <<"_id_", << <<"_id", 1>> >> >>

\* schema as the backend reports it with its own index on every collection
WithPrivateIndexes(schema) ==
  [schema EXCEPT !.collections =
     [i \in 1..Len(@) |->
        WithIndexes(@[i], Append(IndexesOf(@[i]), PrivateIndex))]]

\* <<desired schema, schema of the remote>>, for the planner
Inputs ==
  (OnlyCollections \X OnlyCollections)
    \cup FullSchemas
    \cup (OnlyFunctions(Urls) \X OnlyFunctions(RemoteUrls))
    \cup (OnlyTriggers(Urls) \X OnlyTriggers(RemoteUrls))
    \cup {<<schema, WithServerDefaults(schema)>> : schema \in OnlyCollections}
    \cup {<<schema, WithPrivateIndexes(schema)>> : schema \in OnlyCollections}

\* the options of getPlan and check, and the fourth argument of plan
DefaultOptions ==
  [hookUrl |-> NoHookUrl, ignoreIndexes |-> FALSE,
   disallowColumnRedefine |-> FALSE, disallowIndexRedefine |-> FALSE,
   ignorePrivateIndexes |-> FALSE]

FacadeOptions ==
  [hookUrl : {NoHookUrl, <<"/h">>}, ignoreIndexes : BOOLEAN,
   disallowColumnRedefine : BOOLEAN, disallowIndexRedefine : BOOLEAN,
   ignorePrivateIndexes : {FALSE}]

\* what another client of the remote does to it while a call is suspended
OtherClientCommands ==
  {DeleteCollection("Bar"), AddFunction([functionName |-> "f", url |-> "/a"])}

\* the function another callback of the caller pushes into the desired schema
PushedFunction == [functionName |-> "f", url |-> "/b"]

----------------------------------------------------------------------------
(* The state machine.                                                      *)

Idle ==
  /\ options = DefaultOptions
  /\ commands = <<>>
  /\ error = NoError
  /\ requests = <<>>
  /\ cursor = 1
  /\ live = EmptySchema
  /\ caller = "none"
  /\ others = 0
  /\ pc = "idle"

Init ==
  /\ \E input \in Inputs : newSchema = input[1] /\ remote = input[2]
  /\ Idle

FacadeInit ==
  /\ \E input \in FacadeInputs : newSchema = input[1] /\ remote = input[2]
  /\ Idle

\* plan(newSchema, oldSchema, hookUrl, ignorePrivateIndexes) on the desired
\* schema and the schema the remote holds
PlanCall ==
  /\ pc = "idle"
  /\ \E h \in HookUrls, ignorePrivateIndexes \in BOOLEAN :
       /\ options' = [DefaultOptions EXCEPT
                        !.hookUrl = h,
                        !.ignorePrivateIndexes = ignorePrivateIndexes]
       /\ commands' = plan(newSchema, remote, h, ignorePrivateIndexes)
  /\ pc' = "planned"
  /\ UNCHANGED <<newSchema, remote, error, requests, cursor, live, caller,
                 others>>

\* the executor sends the next command of the plan to the remote
ExecuteStep ==
  /\ pc \in {"planned", "executing"}
  /\ cursor <= Len(commands)
  /\ remote' = applyCommand(remote, commands[cursor])
  /\ requests' = Append(requests, methodOf(commands[cursor]))
  /\ cursor' = cursor + 1
  /\ pc' = "executing"
  /\ UNCHANGED <<newSchema, options, commands, error, live, caller, others>>

\* the executor has sent every command
ExecuteDone ==
  /\ pc \in {"planned", "executing"}
  /\ cursor > Len(commands)
  /\ pc' = "done"
  /\ UNCHANGED <<newSchema, remote, options, commands, error, requests,
                 cursor, live, caller, others>>

\* where a call stands once getLiveSchema has ended, with a schema or with
\* the error of a request: getLiveSchema has returned to its own caller, or
\* getPlan has thrown
Ended(by) == IF by = "getLiveSchema" THEN "gotLiveSchema" ELSE "gotPlan"

\* getPlan(newSchema, parseUrl, options, logger) is called and runs up to its
\* await: verifySchema, then getLiveSchema up to its first await, where
\* GET /schemas has been sent
GetPlan ==
  /\ pc = "idle"
  /\ caller' = "getPlan"
  /\ \E opts \in FacadeOptions : options' = opts
  /\ LET validationErrors == verifySchema(newSchema)
     IN  IF Len(validationErrors) > 0
         THEN /\ error' = InvalidSchemaError(validationErrors)
              /\ pc' = "gotPlan"
              /\ UNCHANGED requests
         ELSE /\ requests' = Append(requests, "get")
              /\ pc' = "getCollections"
              /\ UNCHANGED error
  /\ UNCHANGED <<newSchema, remote, commands, cursor, live, others>>

\* check(newSchema, parseUrl, options, logger) is called: it calls getPlan,
\* which runs up to its await, and awaits it
Check ==
  /\ pc = "idle"
  /\ caller' = "check"
  /\ \E opts \in FacadeOptions : options' = opts
  /\ LET validationErrors == verifySchema(newSchema)
     IN  IF Len(validationErrors) > 0
         THEN /\ error' = InvalidSchemaError(validationErrors)
              /\ pc' = "gotPlan"
              /\ UNCHANGED requests
         ELSE /\ requests' = Append(requests, "get")
              /\ pc' = "getCollections"
              /\ UNCHANGED error
  /\ UNCHANGED <<newSchema, remote, commands, cursor, live, others>>

\* getLiveSchema(parseUrl, applicationId, key, logger) is called on its own
\* and runs up to its first await, where GET /schemas has been sent
GetLiveSchema ==
  /\ pc = "idle"
  /\ caller' = "getLiveSchema"
  /\ requests' = Append(requests, "get")
  /\ pc' = "getCollections"
  /\ UNCHANGED <<newSchema, remote, options, commands, error, cursor, live,
                 others>>

\* GET /schemas ends: the remote answers with the collections it holds then
\* and getLiveSchema goes on to send GET /hooks/functions, or the request
\* fails and getLiveSchema rejects
GetCollections ==
  /\ pc = "getCollections"
  /\ \E answered \in BOOLEAN :
       IF answered
       THEN /\ live' = [live EXCEPT !.collections = remote.collections]
            /\ requests' = Append(requests, "get")
            /\ pc' = "getFunctions"
            /\ UNCHANGED error
       ELSE /\ error' = RequestError
            /\ pc' = Ended(caller)
            /\ UNCHANGED <<live, requests>>
  /\ UNCHANGED <<newSchema, remote, options, commands, cursor, caller, others>>

\* GET /hooks/functions ends: the remote answers with the functions it holds
\* then and getLiveSchema goes on to send GET /hooks/triggers, or the request
\* fails and getLiveSchema rejects
GetFunctions ==
  /\ pc = "getFunctions"
  /\ \E answered \in BOOLEAN :
       IF answered
       THEN /\ live' = [live EXCEPT !.functions = remote.functions]
            /\ requests' = Append(requests, "get")
            /\ pc' = "getTriggers"
            /\ UNCHANGED error
       ELSE /\ error' = RequestError
            /\ pc' = Ended(caller)
            /\ UNCHANGED <<live, requests>>
  /\ UNCHANGED <<newSchema, remote, options, commands, cursor, caller, others>>

\* GET /hooks/triggers ends: the remote answers with the triggers it holds
\* then and getLiveSchema returns the schema it has assembled, or the request
\* fails and getLiveSchema rejects
GetTriggers ==
  /\ pc = "getTriggers"
  /\ \E answered \in BOOLEAN :
       IF answered
       THEN /\ live' = [live EXCEPT !.triggers = remote.triggers]
            /\ pc' = "gotLiveSchema"
            /\ UNCHANGED error
       ELSE /\ error' = RequestError
            /\ pc' = Ended(caller)
            /\ UNCHANGED live
  /\ UNCHANGED <<newSchema, remote, options, commands, requests, cursor,
                 caller, others>>

\* getPlan resumes with the schema getLiveSchema returned: plan, the
\* ignoreIndexes filter and the two redefinition guards
GetPlanResume ==
  /\ pc = "gotLiveSchema"
  /\ caller \in {"getPlan", "check"}
  /\ \E keepsReference \in BOOLEAN :
       LET r == getPlan(newSchema, live, options, keepsReference)
       IN  /\ commands' = r.commands
           /\ error' = r.error
           /\ newSchema' = r.newSchema
  /\ pc' = "gotPlan"
  /\ UNCHANGED <<remote, options, requests, cursor, live, caller, others>>

\* check resumes once getPlan has ended
CheckResume ==
  /\ pc = "gotPlan"
  /\ caller = "check"
  /\ error' = checkOutcome([commands |-> commands, error |-> error])
  /\ pc' = "checked"
  /\ UNCHANGED <<newSchema, remote, options, commands, requests, cursor, live,
                 caller, others>>

\* the call is suspended at an await and the event loop runs other
\* callbacks: a request of getLiveSchema is in flight, getPlan awaits the
\* schema getLiveSchema has just returned, or check awaits the getPlan call
\* that has just ended
Suspended ==
  \/ pc \in {"getCollections", "getFunctions", "getTriggers"}
  \/ pc = "gotLiveSchema" /\ caller \in {"getPlan", "check"}
  \/ pc = "gotPlan" /\ caller = "check"

\* while the call is suspended another client changes the remote
RemoteChange ==
  /\ Suspended
  /\ others < MaxOtherCallbacks
  /\ \E c \in OtherClientCommands :
       /\ c.type = "AddFunction"
            => ~FuncMapHas(remote.functions, c.definition.functionName)
       /\ remote' = applyCommand(remote, c)
       /\ remote' # remote
  /\ others' = others + 1
  /\ UNCHANGED <<newSchema, options, commands, error, requests, cursor, live,
                 caller, pc>>

\* while the call is suspended another callback of the caller changes the
\* desired schema object
DesiredChange ==
  /\ Suspended
  /\ others < MaxOtherCallbacks
  /\ newSchema' = [newSchema EXCEPT !.functions = Append(@, PushedFunction)]
  /\ others' = others + 1
  /\ UNCHANGED <<remote, options, commands, error, requests, cursor, live,
                 caller, pc>>

Next == PlanCall \/ ExecuteStep \/ ExecuteDone

Spec == Init /\ [][Next]_vars

FacadeNext ==
  \/ GetPlan
  \/ Check
  \/ GetLiveSchema
  \/ GetCollections
  \/ GetFunctions
  \/ GetTriggers
  \/ GetPlanResume
  \/ CheckResume
  \/ RemoteChange
  \/ DesiredChange

FacadeSpec == FacadeInit /\ [][FacadeNext]_vars

----------------------------------------------------------------------------
(* Vocabulary of the properties.                                           *)

\* className, functionName and (triggerName, className) are unique keys
UniqueKeys(schema) ==
  /\ \A i, j \in 1..Len(schema.collections) :
       schema.collections[i].className = schema.collections[j].className
         => i = j
  /\ \A i, j \in 1..Len(schema.functions) :
       schema.functions[i].functionName = schema.functions[j].functionName
         => i = j
  /\ \A i, j \in 1..Len(schema.triggers) :
       (/\ schema.triggers[i].triggerName = schema.triggers[j].triggerName
        /\ schema.triggers[i].className = schema.triggers[j].className)
         => i = j

\* an object of objects as a mapping, whatever the order of its keys
AsMapping(o) ==
  [k \in KeySet(o) |->
     LET v == Lookup(o, k) IN [x \in KeySet(v) |-> Lookup(v, x)]]

\* what a collection holds: its fields, indexes and permissions as mappings
CollectionContent(c) ==
  [className |-> c.className,
   fields |-> AsMapping(c.fields),
   indexes |-> AsMapping(IndexesOf(c)),
   classLevelPermissions |-> AsMapping(c.classLevelPermissions)]

Range(s) == {s[i] : i \in 1..Len(s)}

\* url as the remote holds it when the plan was made with hookUrl h
HookedUrl(h, url) == IF h = NoHookUrl THEN url ELSE h[1] \o url

HookedSchema(schema, h) ==
  [collections |-> schema.collections,
   functions |-> [i \in 1..Len(schema.functions) |->
                    [schema.functions[i] EXCEPT !.url = HookedUrl(h, @)]],
   triggers |-> [i \in 1..Len(schema.triggers) |->
                   [schema.triggers[i] EXCEPT !.url = HookedUrl(h, @)]]]

\* schema a holds the collections, functions and triggers of schema b
SameSchema(a, b) ==
  /\ Len(a.collections) = Len(b.collections)
  /\ {CollectionContent(c) : c \in Range(a.collections)}
       = {CollectionContent(c) : c \in Range(b.collections)}
  /\ Len(a.functions) = Len(b.functions)
  /\ Range(a.functions) = Range(b.functions)
  /\ Len(a.triggers) = Len(b.triggers)
  /\ Range(a.triggers) = Range(b.triggers)

TypesOf(cmds) == {cmds[k].type : k \in 1..Len(cmds)}

ErrorName == IF error = NoError THEN "none" ELSE error.name

----------------------------------------------------------------------------
(* C1  Round-trip convergence: once every command of                       *)
(* plan(new, old, hookUrl) has been applied in order to a remote that held *)
(* old, the remote holds the collections, functions and triggers of new,   *)
(* each function and trigger url being hookUrl + url when a hookUrl was    *)
(* given (plan is called with three arguments: private indexes are not     *)
(* ignored).                                                               *)

C1_RoundTripConvergence ==
  (pc = "done" /\ UniqueKeys(newSchema) /\ ~options.ignorePrivateIndexes)
    => SameSchema(remote, HookedSchema(newSchema, options.hookUrl))

----------------------------------------------------------------------------
(* C2  Idempotence, as the code has it: for a valid schema S,              *)
(* plan(S, S, hookUrl) is empty when hookUrl is absent or empty, or when S *)
(* declares no function and no trigger; with a non-empty hookUrl the plan  *)
(* is empty against the observed schema that is S with every function and  *)
(* trigger url replaced by hookUrl + url, and against S itself it is one   *)
(* UpdateFunction per function followed by one UpdateTrigger per trigger.  *)

C2_Idempotence ==
  (pc = "planned" /\ UniqueKeys(newSchema))
    => /\ (/\ remote = newSchema
           /\ \/ ~Truthy(options.hookUrl)
              \/ newSchema.functions = <<>> /\ newSchema.triggers = <<>>)
            => commands = <<>>
       /\ (/\ Truthy(options.hookUrl)
           /\ remote = HookedSchema(newSchema, options.hookUrl))
            => commands = <<>>
       /\ (Truthy(options.hookUrl) /\ remote = newSchema)
            => LET hooked == HookedSchema(newSchema, options.hookUrl)
               IN  commands =
                     [k \in 1..Len(hooked.functions) |->
                        UpdateFunction(hooked.functions[k])]
                     \o [k \in 1..Len(hooked.triggers) |->
                           UpdateTrigger(hooked.triggers[k])]

C2_Witness ==
  /\ pc = "planned"
  /\ UniqueKeys(newSchema)
  /\ options.hookUrl = <<"/h">>
  /\ newSchema.collections # <<>>
  /\ newSchema.functions # <<>>
  /\ newSchema.triggers # <<>>
  /\ remote = HookedSchema(newSchema, options.hookUrl)
  /\ commands = <<>>

\* C2 as stated: plan(S, S, hookUrl) is empty for any valid schema S and
\* any hookUrl, absent or a non-empty prefix
C2_AsStated ==
  (/\ pc = "planned"
   /\ UniqueKeys(newSchema)
   /\ remote = newSchema
   /\ options.hookUrl # <<"">>)
    => commands = <<>>

----------------------------------------------------------------------------
(* C3  Ordering: the collection commands of a plan come in the group order *)
(* AddCollection, DeleteCollection, UpdateCollectionPermissions,           *)
(* DeleteIndex, DeleteColumn, AddColumn/UpdateColumn, AddIndex/UpdateIndex;*)
(* so for a collection every DeleteIndex precedes every DeleteColumn, and  *)
(* every AddColumn/UpdateColumn of a field precedes every                  *)
(* AddIndex/UpdateIndex that references the field.                         *)

CollectionCommandTypes ==
  {"AddCollection", "DeleteCollection", "UpdateCollectionPermissions",
   "DeleteIndex", "DeleteColumn", "AddColumn", "UpdateColumn",
   "AddIndex", "UpdateIndex"}

GroupOf(c) ==
  CASE c.type = "AddCollection" -> 1
    [] c.type = "DeleteCollection" -> 2
    [] c.type = "UpdateCollectionPermissions" -> 3
    [] c.type = "DeleteIndex" -> 4
    [] c.type = "DeleteColumn" -> 5
    [] c.type \in {"AddColumn", "UpdateColumn"} -> 6
    [] c.type \in {"AddIndex", "UpdateIndex"} -> 7

C3_Ordering ==
  pc = "planned" =>
    \A i, j \in 1..Len(commands) :
      (/\ commands[i].type \in CollectionCommandTypes
       /\ commands[j].type \in CollectionCommandTypes)
        => /\ i < j => GroupOf(commands[i]) <= GroupOf(commands[j])
           /\ (/\ commands[i].type = "DeleteIndex"
               /\ commands[j].type = "DeleteColumn"
               /\ commands[i].className = commands[j].className)
                => i < j
           /\ (/\ commands[i].type \in {"AddColumn", "UpdateColumn"}
               /\ commands[j].type \in {"AddIndex", "UpdateIndex"}
               /\ commands[i].className = commands[j].className
               /\ HasOwnProperty(commands[j].definition, commands[i].name))
                => i < j

C3_Witness ==
  /\ pc = "planned"
  /\ \E i, j, m, n \in 1..Len(commands) :
       /\ commands[i].type = "DeleteIndex"
       /\ commands[j].type = "DeleteColumn"
       /\ commands[i].className = commands[j].className
       /\ commands[m].type = "AddColumn"
       /\ commands[n].type = "AddIndex"
       /\ commands[m].className = commands[n].className
       /\ HasOwnProperty(commands[n].definition, commands[m].name)

----------------------------------------------------------------------------
(* C4  Key uniqueness: for a desired schema with unique keys no two        *)
(* commands of a plan target the same entity, and a column or index that   *)
(* differs between the two schemas gets exactly one command, an Update.    *)

TargetOf(c) ==
  CASE c.type = "AddCollection" ->
         <<"collection", c.definition.className, "">>
    [] c.type \in {"DeleteCollection", "UpdateCollectionPermissions"} ->
         <<"collection", c.className, "">>
    [] c.type \in {"AddColumn", "UpdateColumn", "DeleteColumn"} ->
         <<"column", c.className, c.name>>
    [] c.type \in {"AddIndex", "UpdateIndex", "DeleteIndex"} ->
         <<"index", c.className, c.name>>
    [] c.type \in {"AddFunction", "UpdateFunction"} ->
         <<"function", c.definition.functionName, "">>
    [] c.type = "DeleteFunction" ->
         <<"function", c.functionName, "">>
    [] c.type \in {"AddTrigger", "UpdateTrigger"} ->
         <<"trigger", c.definition.className, c.definition.triggerName>>
    [] c.type = "DeleteTrigger" ->
         <<"trigger", c.className, c.triggerName>>

\* the types of the commands of the plan that target t
TypesOn(t) ==
  [k \in {x \in 1..Len(commands) : TargetOf(commands[x]) = t} |->
     commands[k].type]

\* f is a mapping of exactly one command, of type t
OneOfType(f, t) == Cardinality(DOMAIN f) = 1 /\ \A k \in DOMAIN f : f[k] = t

C4_KeyUniqueness ==
  (pc = "planned" /\ UniqueKeys(newSchema))
    => /\ \A i, j \in 1..Len(commands) :
            TargetOf(commands[i]) = TargetOf(commands[j]) => i = j
       /\ \A c \in Range(newSchema.collections), o \in Range(remote.collections) :
            c.className = o.className
              => /\ \A name \in KeySet(c.fields) \cap KeySet(o.fields) :
                      Lookup(c.fields, name) # Lookup(o.fields, name)
                        => OneOfType(TypesOn(<<"column", c.className, name>>),
                                     "UpdateColumn")
                 /\ \A name \in KeySet(IndexesOf(c)) \cap KeySet(IndexesOf(o)) :
                      Lookup(IndexesOf(c), name) # Lookup(IndexesOf(o), name)
                        => OneOfType(TypesOn(<<"index", c.className, name>>),
                                     "UpdateIndex")

C4_Witness ==
  /\ pc = "planned"
  /\ UniqueKeys(newSchema)
  /\ {"UpdateColumn", "UpdateIndex", "DeleteColumn", "AddColumn",
      "DeleteIndex"} \subseteq TypesOf(commands)

----------------------------------------------------------------------------
(* C5  hookUrl rewrite precedes comparison: with a hookUrl supplied, an    *)
(* Update is emitted for a function or trigger present in both schemas     *)
(* exactly when the observed url differs from hookUrl + url, and every     *)
(* Add/Update function or trigger command carries hookUrl + url.           *)

\* the commands of the given types whose definition is d
Carrying(types, d) ==
  {k \in 1..Len(commands) :
     commands[k].type \in types /\ commands[k].definition = d}

C5_HookUrlRewrite ==
  (pc = "planned" /\ UniqueKeys(newSchema) /\ options.hookUrl # NoHookUrl)
    => LET h == options.hookUrl[1]
           rewritten(d) == [d EXCEPT !.url = h \o d.url]
       IN  /\ \A f \in Range(newSchema.functions), o \in Range(remote.functions) :
                f.functionName = o.functionName
                  => (o.url # h \o f.url
                        <=> Carrying({"UpdateFunction"}, rewritten(f)) # {})
           /\ \A t \in Range(newSchema.triggers), o \in Range(remote.triggers) :
                (t.triggerName = o.triggerName /\ t.className = o.className)
                  => (o.url # h \o t.url
                        <=> Carrying({"UpdateTrigger"}, rewritten(t)) # {})
           /\ \A k \in 1..Len(commands) :
                /\ commands[k].type \in {"AddFunction", "UpdateFunction"}
                     => \E f \in Range(newSchema.functions) :
                          commands[k].definition = rewritten(f)
                /\ commands[k].type \in {"AddTrigger", "UpdateTrigger"}
                     => \E t \in Range(newSchema.triggers) :
                          commands[k].definition = rewritten(t)

C5_Witness ==
  /\ pc = "planned"
  /\ UniqueKeys(newSchema)
  /\ options.hookUrl = <<"/h">>
  /\ \E f, g \in Range(newSchema.functions), o, p \in Range(remote.functions) :
       /\ f.functionName = o.functionName
       /\ o.url = "/h" \o f.url
       /\ g.functionName = p.functionName
       /\ p.url = g.url
       /\ Carrying({"UpdateFunction"}, [g EXCEPT !.url = "/h" \o g.url]) # {}
       /\ Carrying({"UpdateFunction"}, [f EXCEPT !.url = "/h" \o f.url]) = {}

----------------------------------------------------------------------------
(* C6  Redefinition guard: with disallowColumnRedefine (resp.              *)
(* disallowIndexRedefine) set, getPlan raises DisallowedCommandError       *)
(* exactly when the remaining command list holds an UpdateColumn or        *)
(* DeleteColumn (resp. UpdateIndex or DeleteIndex) command, and returns    *)
(* the list otherwise.                                                     *)

C6_RedefinitionGuard ==
  (pc = "gotPlan" /\ ErrorName \notin {"InvalidSchemaError", "RequestError"})
    => (ErrorName = "DisallowedCommandError"
          <=> \/ /\ options.disallowColumnRedefine
                 /\ TypesOf(commands) \cap {"UpdateColumn", "DeleteColumn"} # {}
              \/ /\ options.disallowIndexRedefine
                 /\ TypesOf(commands) \cap {"UpdateIndex", "DeleteIndex"} # {})

----------------------------------------------------------------------------
(* C7  ignoreIndexes: the list getPlan returns with ignoreIndexes set      *)
(* holds no AddIndex, UpdateIndex or DeleteIndex command, every            *)
(* AddCollection in it has an empty indexes map, and it is the other       *)
(* commands of the plan in their order. The plan is the one of the step    *)
(* in which getPlan resumes: plan of the desired schema as it is then      *)
(* against the schema getLiveSchema returned.                              *)

\* the types and targets of the commands that are not index commands
OtherCommands(cmds) ==
  LET kept == SelectSeq(cmds, LAMBDA c : ~isIndexCommand(c))
  IN  [k \in 1..Len(kept) |-> <<kept[k].type, TargetOf(kept[k])>>]

C7_IgnoreIndexes ==
  [][(/\ pc = "gotLiveSchema"
      /\ pc' = "gotPlan"
      /\ error' = NoError
      /\ options.ignoreIndexes)
       => /\ TypesOf(commands')
               \cap {"AddIndex", "UpdateIndex", "DeleteIndex"} = {}
          /\ \A k \in 1..Len(commands') :
               commands'[k].type = "AddCollection"
                 => /\ "indexes" \in DOMAIN commands'[k].definition
                    /\ commands'[k].definition.indexes = EmptyObject
          /\ LET planned == plan(newSchema, live, options.hookUrl, FALSE)
             IN  /\ OtherCommands(commands') = OtherCommands(planned)
                 /\ \A k \in 1..Len(commands') :
                      commands'[k].type # "AddCollection"
                        => \E m \in 1..Len(planned) :
                             planned[m] = commands'[k]]_vars

\* getPlan has returned a list that is shorter than the plan of the desired
\* schema it planned on (no other callback has run since)
C7_Witness ==
  /\ pc = "gotPlan"
  /\ error = NoError
  /\ options.ignoreIndexes
  /\ others = 0
  /\ {"AddCollection", "UpdateCollectionPermissions", "DeleteColumn",
      "AddColumn"} \subseteq TypesOf(commands)
  /\ Len(commands) < Len(plan(newSchema, live, options.hookUrl, FALSE))

----------------------------------------------------------------------------
(* C8  Drift detection: check returns normally exactly when the plan is    *)
(* empty, raises OutOfSyncError with the whole command list when it is     *)
(* not (so with an AddCollection for a desired collection the observed     *)
(* schema lacks), and sends the remote nothing but GET requests. The plan  *)
(* is the command list of the getPlan call check awaited; a check whose    *)
(* schema was invalid or whose request failed has no plan, and a plan with *)
(* a column (index) redefinition under disallowColumnRedefine              *)
(* (disallowIndexRedefine) is getPlan's to refuse.                         *)

\* getPlan refuses the plan: a redefinition command of a kind the options
\* disallow is in it
Refused ==
  \/ /\ options.disallowColumnRedefine
     /\ TypesOf(commands) \cap {"UpdateColumn", "DeleteColumn"} # {}
  \/ /\ options.disallowIndexRedefine
     /\ TypesOf(commands) \cap {"UpdateIndex", "DeleteIndex"} # {}

C8_DriftDetection ==
  pc = "checked" =>
    /\ \A k \in 1..Len(requests) : requests[k] = "get"
    /\ (ErrorName \notin {"InvalidSchemaError", "RequestError"} /\ ~Refused)
         => /\ error = NoError <=> commands = <<>>
            /\ commands # <<>> => error = OutOfSyncError(commands)
            /\ \A c \in Range(newSchema.collections) :
                 (\A o \in Range(live.collections) : o.className # c.className)
                   => /\ ErrorName = "OutOfSyncError"
                      /\ \E k \in 1..Len(error.commands) :
                           /\ error.commands[k].type = "AddCollection"
                           /\ error.commands[k].definition.className = c.className

----------------------------------------------------------------------------
(* C9  New collection, as the code has it: for a desired collection the    *)
(* observed schema lacks, plan returns one AddCollection whose definition  *)
(* is the declared collection, with its fields and its indexes, and no     *)
(* other command for that collection: no AddIndex follows.                 *)

C9_NewCollection ==
  (pc = "planned" /\ UniqueKeys(newSchema))
    => \A c \in Range(newSchema.collections) :
         (\A o \in Range(remote.collections) : o.className # c.className)
           => /\ \E k \in 1..Len(commands) :
                   /\ commands[k].type = "AddCollection"
                   /\ commands[k].definition = c
              /\ \A k \in 1..Len(commands) :
                   (/\ commands[k].type \in CollectionCommandTypes
                    /\ TargetOf(commands[k])[2] = c.className)
                     => commands[k].type = "AddCollection"

C9_Witness ==
  /\ pc = "planned"
  /\ remote.collections = <<>>
  /\ Len(commands) = 1
  /\ commands[1].type = "AddCollection"
  /\ commands[1].definition.fields # EmptyObject
  /\ IndexesOf(commands[1].definition) # EmptyObject

\* C9 as stated: an AddCollection that carries the fields but no indexes,
\* followed by one AddIndex per declared index
C9_AsStated ==
  (pc = "planned" /\ UniqueKeys(newSchema))
    => \A c \in Range(newSchema.collections) :
         (/\ \A o \in Range(remote.collections) : o.className # c.className
          /\ c.fields # EmptyObject
          /\ IndexesOf(c) # EmptyObject)
           => \E k \in 1..Len(commands) :
                /\ commands[k].type = "AddCollection"
                /\ commands[k].definition.className = c.className
                /\ commands[k].definition.fields = c.fields
                /\ IndexesOf(commands[k].definition) = EmptyObject
                /\ \A name \in KeySet(IndexesOf(c)) :
                     \E m \in (k+1)..Len(commands) :
                       commands[m] = AddIndex(c.className, name,
                                              Lookup(IndexesOf(c), name))

----------------------------------------------------------------------------
(* C10  Purity: no step of getPlan or check changes the caller's desired    *)
(* schema, every collection with its indexes map, every function and       *)
(* trigger, or the observed schema. The steps of a call are those that     *)
(* move pc; the other callbacks leave it where it is.                      *)

C10_Purity ==
  [][pc' # pc => (newSchema' = newSchema /\ remote' = remote)]_vars

----------------------------------------------------------------------------
(* C11  Permission updates: for a collection of both schemas whose         *)
(* classLevelPermissions differ the plan holds exactly one                 *)
(* UpdateCollectionPermissions for its className, carrying the new and the *)
(* old permission maps; when the permissions are equal it holds none.      *)

\* the UpdateCollectionPermissions commands of the plan for className
PermissionUpdates(className) ==
  {k \in 1..Len(commands) :
     /\ commands[k].type = "UpdateCollectionPermissions"
     /\ commands[k].className = className}

C11_PermissionUpdates ==
  (pc = "planned" /\ UniqueKeys(newSchema))
    => \A c \in Range(newSchema.collections), o \in Range(remote.collections) :
         c.className = o.className
           => IF c.classLevelPermissions # o.classLevelPermissions
              THEN /\ Cardinality(PermissionUpdates(c.className)) = 1
                   /\ \A k \in PermissionUpdates(c.className) :
                        /\ commands[k].definition = c.classLevelPermissions
                        /\ commands[k].oldDefinition = <<o.classLevelPermissions>>
              ELSE PermissionUpdates(c.className) = {}

----------------------------------------------------------------------------
(* C12  Permission ignore-set: when the observed classLevelPermissions of  *)
(* a collection differ from the desired ones only by permission actions of *)
(* the ignore-set, the plan holds no UpdateCollectionPermissions for it,   *)
(* and the plan against a schema that differs in nothing else is empty.    *)

\* the permission actions excluded from comparison (the specification fixes
\* such a set without naming its members; the action the backend adds here
\* stands for them)
IgnoredPermissions == {ServerAddedPermission[1]}

WithoutIgnored(permissions) ==
  SelectSeq(permissions, LAMBDA p : p[1] \notin IgnoredPermissions)

C12_PermissionIgnoreSet ==
  (pc = "planned" /\ UniqueKeys(newSchema))
    => /\ \A c \in Range(newSchema.collections),
             o \in Range(remote.collections) :
            (/\ c.className = o.className
             /\ AsMapping(WithoutIgnored(o.classLevelPermissions))
                  = AsMapping(WithoutIgnored(c.classLevelPermissions)))
              => PermissionUpdates(c.className) = {}
       /\ remote = WithServerDefaults(newSchema) => commands = <<>>

====
